---- MODULE Spec2Model ----
(***************************************************************************)
(* The voice conversation controller of the study assistant:               *)
(*   VoiceService  (src/src/services/voiceService.ts, lines 51-303)        *)
(*   VoiceRecorder (src/src/components/VoiceRecorder.tsx, lines 23-335)    *)
(* together with the two platform resources they drive, the Web Speech     *)
(* recognizer (SpeechRecognition) and synthesizer (speechSynthesis).       *)
(*                                                                         *)
(* One browser task (a click, a platform event, a timer, a network reply)  *)
(* is one action.  A promise continuation is a microtask: it runs before   *)
(* the next task, so it is part of the action that settles the promise.    *)
(* Every handler is an operator from a world record to a world record;     *)
(* the field threw carries a pending JavaScript exception, and a statement *)
(* is skipped while an exception is pending.                               *)
(***************************************************************************)
EXTENDS Integers, Sequences, FiniteSets, TLC

VARIABLES
    env,            \* the platform: which capabilities exist, transcript spacing
    svc,            \* the static fields of VoiceService
    rec,            \* the platform recognizer: its state and result list
    queue,          \* the platform synthesizer's utterance queue (head is spoken)
    utts,           \* every SpeechSynthesisUtterance created by speak()
    calls,          \* every VoiceService.startListening() call and its closure
    ui,             \* the React state of VoiceRecorder (and the isListening prop)
    stopRequested,  \* history: the user's last request was stop/clear
    errors,         \* the error messages (destructive toasts) the last task showed
    speech          \* a response text and what speakResponse() hands to speak()

vars == <<env, svc, rec, queue, utts, calls, ui, stopRequested, errors, speech>>

----------------------------------------------------------------------------
(* Bounds of the model *)

MaxUtt == 2         \* utterances created in one run
MaxCalls == 2       \* startListening() calls in one run
MaxRequests == 4    \* capacity of one run: a startListening() call takes 2, an utterance 1
MaxResults == 2     \* results of one recognition session
MaxTimers == 1      \* pending restart timers
MaxTextLen == 4     \* characters of a response text

(* checkForInterruption's word threshold *)
InterruptionMaxWords == 3

----------------------------------------------------------------------------
(* Text.  A string is abstracted to what the code reads of it:             *)
(*   n     number of words of the trimmed string (split(' ').length),      *)
(*         saturating above the threshold; 0 for the empty string          *)
(*   kw    contains one of VoiceService.interruptionKeywords               *)
(*   lead  starts with a space                                             *)
(*   lit   is exactly the string 'stop'                                    *)

WordCap == InterruptionMaxWords + 1

Min(a, b) == IF a < b THEN a ELSE b

Empty == [n |-> 0, kw |-> FALSE, lead |-> FALSE, lit |-> FALSE]

StopLiteral == [n |-> 1, kw |-> TRUE, lead |-> FALSE, lit |-> TRUE]

(* What the user can say in one recognition result. *)
Question == [n |-> 3, kw |-> FALSE, lead |-> FALSE, lit |-> FALSE]
LongWithStop == [n |-> WordCap, kw |-> TRUE, lead |-> FALSE, lit |-> FALSE]

Vocabulary == {Question, StopLiteral, LongWithStop}

(* a + b on strings: without a separating space the last word of a and the *)
(* first word of b become one word.                                        *)
Concat(a, b) ==
    IF a.n = 0 THEN b
    ELSE IF b.n = 0 THEN a
    ELSE [n    |-> Min(WordCap, a.n + b.n - (IF b.lead THEN 0 ELSE 1)),
          kw   |-> a.kw \/ b.kw,
          lead |-> a.lead,
          lit  |-> FALSE]

Trim(t) == [t EXCEPT !.lead = FALSE]

(* text.split(' ').length of a trimmed string; ''.split(' ') is [''] *)
SplitLength(t) == IF t.n = 0 THEN 1 ELSE t.n

(* VoiceService.checkForInterruption *)
checkForInterruption(text) ==
    text.kw /\ SplitLength(text) <= InterruptionMaxWords

(* stopKeywords.some(word => lowerInput.includes(word)) in processVoiceInput. *)
(* The list adds "that's enough", which contains 'enough', and 'halt',     *)
(* which no utterance of the vocabulary contains.                          *)
HasStopKeyword(text) == text.kw

----------------------------------------------------------------------------
(* The world record and its statements *)

World ==
    [env |-> env, svc |-> svc, rec |-> rec, queue |-> queue, utts |-> utts,
     calls |-> calls, ui |-> ui, stopRequested |-> stopRequested,
     errors |-> 0, threw |-> FALSE]

Commit(w) ==
    /\ env' = w.env
    /\ svc' = w.svc
    /\ rec' = w.rec
    /\ queue' = w.queue
    /\ utts' = w.utts
    /\ calls' = w.calls
    /\ ui' = w.ui
    /\ stopRequested' = w.stopRequested
    /\ errors' = w.errors
    /\ UNCHANGED speech

Throw(w) == [w EXCEPT !.threw = TRUE]

(* try { ... } catch: the exception, if any, is consumed *)
Caught(w) == [w EXCEPT !.threw = FALSE]

(* a React state setter (or the onListeningChange prop) *)
SetUI(w, field, value) ==
    IF w.threw THEN w ELSE [w EXCEPT !.ui[field] = value]

(* toast({ ..., variant: "destructive" }): one error message to the user *)
toastError(w) ==
    IF w.threw THEN w ELSE [w EXCEPT !.errors = @ + 1]

----------------------------------------------------------------------------
(* VoiceService: speech playback *)

(* speechSynthesis.cancel(): every queued utterance leaves the queue; the  *)
(* one being spoken will get an 'interrupted' error event and the ones not *)
(* yet begun a 'canceled' error event, each delivered as a later task.     *)
CancelledState(st) == IF st = "speaking" THEN "cancelledSpeaking" ELSE "cancelledPending"

synthesisCancel(w) ==
    [w EXCEPT !.queue = <<>>,
              !.utts = [u \in DOMAIN w.utts |->
                          IF w.utts[u].st \in {"pending", "speaking"}
                          THEN [w.utts[u] EXCEPT !.st = CancelledState(@)]
                          ELSE w.utts[u]]]

(* VoiceService.forceStop.  this.synthesis is window.speechSynthesis: where *)
(* the platform has none, this.synthesis.cancel() is a TypeError.           *)
forceStop(w) ==
    IF w.threw THEN w
    ELSE IF ~w.env.synthSupported THEN Throw(w)
    ELSE [synthesisCancel(w) EXCEPT !.svc.isSpeaking = FALSE,
                                    !.svc.currentUtterance = 0]

(* VoiceService.stopSpeaking *)
stopSpeaking(w) == forceStop(w)

NewUtterance(caller, resp) ==
    [st |-> "pending", promise |-> "pending", caller |-> caller, resp |-> resp,
     started |-> FALSE, outcome |-> "none", preemptedBy |-> 0]

(* VoiceService.speak up to the return of the promise.  A throw here is a  *)
(* rejection of the returned promise, which the caller's await rethrows.   *)
(* preemptedBy records, for the utterances this call removes, the          *)
(* utterance that replaced them.                                           *)
MarkPreempted(w, before, u) ==
    [w EXCEPT !.utts = [a \in DOMAIN w.utts |->
                          IF before[a].st \in {"pending", "speaking"}
                             /\ w.utts[a].st \notin {"pending", "speaking"}
                          THEN [w.utts[a] EXCEPT !.preemptedBy = u]
                          ELSE w.utts[a]]]

speakWithoutCancel(w, caller, resp) ==
    IF w.threw THEN w
    ELSE IF ~w.env.synthSupported THEN Throw(w)
    ELSE LET u == Len(w.utts) + 1
         IN [w EXCEPT !.utts = Append(@, NewUtterance(caller, resp)),
                      !.svc.currentUtterance = u,
                      !.queue = Append(@, u)]

speak(w, caller, resp) ==
    IF w.threw THEN w
    ELSE IF ~w.env.synthSupported THEN Throw(w)
    ELSE LET u == Len(w.utts) + 1
             w1 == MarkPreempted(forceStop(w), w.utts, u)
         IN [w1 EXCEPT !.utts = Append(@, NewUtterance(caller, resp)),
                       !.svc.currentUtterance = u,
                       !.queue = Append(@, u)]

(* VoiceService.speakResponse: the cleaned text goes to speak() *)
speakResponse(w, caller, resp) == speak(w, caller, resp)

----------------------------------------------------------------------------
(* VoiceService: speech capture *)

(* VoiceService.initializeSpeechRecognition *)
initializeSpeechRecognition(w) ==
    IF w.threw THEN w
    ELSE IF ~w.env.recSupported THEN Throw(w)
    ELSE [w EXCEPT !.svc.recognition = TRUE]

(* VoiceService.stopListening *)
stopListening(w) ==
    IF w.threw THEN w
    ELSE IF w.svc.recognition /\ w.svc.isListening
    THEN [w EXCEPT !.svc.continuousListening = FALSE,
                   !.rec.state = IF @ \in {"starting", "running"} THEN "stopping" ELSE @,
                   !.svc.isListening = FALSE]
    ELSE w

(* VoiceService.stopContinuousListening *)
stopContinuousListening(w) ==
    IF w.threw THEN w
    ELSE stopListening([w EXCEPT !.svc.continuousListening = FALSE])

NewCall(continuous, caller, cm) ==
    [continuous |-> continuous, caller |-> caller, conversationMode |-> cm,
     finalTranscript |-> Empty, promise |-> "pending", dispatch |-> "none"]

(* VoiceService.startListening up to the return of the promise: the        *)
(* handlers of this call replace the installed ones, then                  *)
(* recognition.start(), which throws InvalidStateError on a recognition    *)
(* that is already started; a throw in the executor rejects the promise.   *)
startListening(w, continuous, caller) ==
    IF w.threw THEN w
    ELSE LET w1 == IF ~w.svc.recognition THEN initializeSpeechRecognition(w) ELSE w
         IN IF w1.threw THEN w1
            ELSE LET c == Len(w1.calls) + 1
                     w2 == [w1 EXCEPT
                              !.svc.continuousListening = continuous,
                              !.calls = Append(@, NewCall(continuous, caller,
                                                          w1.ui.conversationMode)),
                              !.svc.handler = c]
                 IN IF w2.rec.state = "idle"
                    THEN [w2 EXCEPT !.rec.state = "starting", !.rec.results = <<>>]
                    ELSE Throw([w2 EXCEPT !.calls[c].promise = "rejected"])

(* VoiceService.startContinuousListening *)
startContinuousListening(w) ==
    IF w.threw THEN w
    ELSE startListening([w EXCEPT !.svc.continuousListening = TRUE], TRUE, "conversation")

----------------------------------------------------------------------------
(* VoiceRecorder: the handlers and their continuations *)

(* VoiceRecorder.stopConversationMode *)
stopConversationMode(w) ==
    LET w1 == SetUI(w, "conversationMode", FALSE)
        w2 == stopContinuousListening(w1)
        w3 == stopSpeaking(w2)
        w4 == SetUI(w3, "isListening", FALSE)
    IN SetUI(w4, "isPlaying", FALSE)

(* VoiceRecorder.processVoiceInput up to the await of the dispatcher.      *)
(* conversationMode is the value the closure captured when the user        *)
(* clicked.  GeminiService.hasApiKey() is taken to be true.                *)
processVoiceInput(w, c, userInput) ==
    IF w.threw THEN w
    ELSE IF userInput.n = 0 THEN w
    ELSE LET w1 == SetUI(w, "isProcessing", TRUE)
         IN IF HasStopKeyword(userInput)
            THEN LET w2 == SetUI(forceStop(w1), "isPlaying", FALSE)
                     w3 == IF w.calls[c].conversationMode
                           THEN stopConversationMode(w2) ELSE w2
                 IN SetUI(IF w3.threw THEN toastError(Caught(w3)) ELSE w3,
                          "isProcessing", FALSE)
            ELSE [w1 EXCEPT !.calls[c].dispatch = "pending"]

(* processVoiceInput from the dispatcher's answer to the await of          *)
(* speakResponse: the exchange is appended, then playback is requested.    *)
processVoiceInputResponse(w, c) ==
    LET w1 == SetUI(w, "currentResponse", TRUE)
        w2 == SetUI(w1, "conversations", Append(w1.ui.conversations, c))
        w3 == SetUI(w2, "isPlaying", TRUE)
        w4 == speakResponse(w3, "processVoiceInput", c)
    IN IF w4.threw THEN SetUI(toastError(Caught(w4)), "isProcessing", FALSE) ELSE w4

(* processVoiceInput when the dispatcher throws: catch, then finally *)
processVoiceInputFailed(w, c) == SetUI(toastError(w), "isProcessing", FALSE)

(* VoiceRecorder.startListening after the await of the transcript *)
startListeningResumed(w, c, transcript) ==
    IF transcript.lit
    THEN SetUI(w, "isListening", FALSE)
    ELSE LET w1 == SetUI(w, "recordedText", transcript.n > 0)
             w2 == SetUI(w1, "isListening", FALSE)
         IN processVoiceInput(w2, c, transcript)

(* the catch of VoiceRecorder.startListening *)
startListeningFailed(w) == toastError(SetUI(Caught(w), "isListening", FALSE))

(* resolve(value) of a startListening promise, with the continuation of    *)
(* its caller; settling a settled promise does nothing.                    *)
resolveCall(w, c, value) ==
    IF w.threw \/ w.calls[c].promise # "pending" THEN w
    ELSE LET w1 == [w EXCEPT !.calls[c].promise = "resolved"]
         IN IF w.calls[c].caller = "single"
            THEN startListeningResumed(w1, c, value)
            ELSE SetUI(w1, "isListening", TRUE)

(* reject(error) of a startListening promise, with the catch of its caller *)
rejectCall(w, c) ==
    IF w.threw \/ w.calls[c].promise # "pending" THEN w
    ELSE LET w1 == [w EXCEPT !.calls[c].promise = "rejected"]
         IN IF w.calls[c].caller = "single"
            THEN startListeningFailed(w1)
            ELSE toastError(SetUI(w1, "conversationMode", FALSE))

(* The callback VoiceRecorder registers with setInterruptionCallback *)
interruptionCallback(w) == SetUI(forceStop(w), "isPlaying", FALSE)

handleVoiceInterruptionWithoutCancel(w) == SetUI(w, "isPlaying", FALSE)

(* VoiceService.handleVoiceInterruption *)
handleVoiceInterruption(w) == interruptionCallback(forceStop(w))

----------------------------------------------------------------------------
(* The recognition handlers installed by startListening; c is the call     *)
(* whose closures are installed.                                           *)

(* The loop of onresult: from the last result to the first, every final    *)
(* result is appended to finalTranscript and every other to interim.       *)
RECURSIVE Accumulate(_, _, _)
Accumulate(results, i, acc) ==
    IF i = 0 THEN acc
    ELSE Accumulate(results, i - 1,
                    IF results[i].isFinal
                    THEN [acc EXCEPT !.final = Concat(@, results[i].transcript)]
                    ELSE [acc EXCEPT !.interim = Concat(@, results[i].transcript)])

onstart(w) == [w EXCEPT !.svc.isListening = TRUE]

onresult(w) ==
    LET c == w.svc.handler
        continuous == w.calls[c].continuous
        acc == Accumulate(w.rec.results, Len(w.rec.results),
                          [final |-> w.calls[c].finalTranscript, interim |-> Empty])
        w1 == [w EXCEPT !.calls[c].finalTranscript = acc.final]
        currentText == Trim(Concat(acc.final, acc.interim))
    IN IF checkForInterruption(currentText)
       THEN LET w2 == handleVoiceInterruption(w1)
            IN IF ~continuous THEN resolveCall(w2, c, StopLiteral) ELSE w2
       ELSE IF ~continuous /\ acc.final.n > 0
            THEN resolveCall(w1, c, Trim(acc.final))
            ELSE w1

onerror(w) == rejectCall([w EXCEPT !.svc.isListening = FALSE], w.svc.handler)

onend(w) ==
    LET c == w.svc.handler
        w1 == [w EXCEPT !.svc.isListening = FALSE]
    IN IF w.calls[c].continuous /\ w.svc.continuousListening
       THEN [w1 EXCEPT !.rec.timers = @ + 1]
       ELSE IF ~w.calls[c].continuous
            THEN resolveCall(w1, c, Trim(w.calls[c].finalTranscript))
            ELSE w1

restartTimerWithoutStart(w) == [w EXCEPT !.rec.timers = @ - 1]

(* the setTimeout callback of onend *)
restartTimer(w) ==
    LET w1 == [w EXCEPT !.rec.timers = @ - 1]
    IN IF w.svc.continuousListening /\ w.rec.state = "idle"
       THEN [w1 EXCEPT !.rec.state = "starting", !.rec.results = <<>>]
       ELSE w1

----------------------------------------------------------------------------
(* The utterance handlers installed by speak, with the continuation of the *)
(* caller that awaits the promise.                                         *)

(* VoiceRecorder.startConversationMode after the greeting *)
startConversationModeResumed(w) ==
    LET w1 == startContinuousListening(w)
    IN IF w1.threw
       THEN toastError(SetUI(Caught(w1), "conversationMode", FALSE))
       ELSE w1

(* the code after `await VoiceService.speakResponse(...)` of each caller *)
speakResolved(w, u) ==
    LET caller == w.utts[u].caller
        w1 == [w EXCEPT !.utts[u].promise = "resolved"]
    IN IF caller = "processVoiceInput"
       THEN SetUI(SetUI(w1, "isPlaying", FALSE), "isProcessing", FALSE)
       ELSE IF caller = "greeting" THEN startConversationModeResumed(w1)
       ELSE IF caller = "replay" THEN SetUI(w1, "isPlaying", FALSE)
       ELSE w1

(* the catch (and finally) of each caller *)
speakRejected(w, u) ==
    LET caller == w.utts[u].caller
        w1 == [w EXCEPT !.utts[u].promise = "rejected"]
    IN IF caller = "processVoiceInput"
       THEN SetUI(toastError(w1), "isProcessing", FALSE)
       ELSE IF caller = "greeting"
       THEN toastError(SetUI(w1, "conversationMode", FALSE))
       ELSE IF caller = "replay" THEN toastError(SetUI(w1, "isPlaying", FALSE))
       ELSE w1

utteranceOnstart(w, u) ==
    [w EXCEPT !.svc.isSpeaking = TRUE, !.utts[u].started = TRUE]

utteranceOnend(w, u) ==
    speakResolved([w EXCEPT !.svc.isSpeaking = FALSE,
                            !.svc.currentUtterance = 0,
                            !.utts[u].outcome = "end"], u)

(* utterance.onerror: error is 'interrupted', 'canceled' or a failure *)
utteranceOnerror(w, u, error) ==
    LET w1 == [w EXCEPT !.svc.isSpeaking = FALSE,
                        !.svc.currentUtterance = 0,
                        !.utts[u].outcome = error]
    IN IF error # "interrupted" THEN speakRejected(w1, u) ELSE speakResolved(w1, u)

----------------------------------------------------------------------------
(* The initial state: the page is loaded, nothing has been asked. *)

VoiceInit ==
    /\ env \in [synthSupported : BOOLEAN, recSupported : BOOLEAN, spaced : BOOLEAN]
    /\ svc = [recognition |-> FALSE, isListening |-> FALSE,
              continuousListening |-> FALSE, isSpeaking |-> FALSE,
              currentUtterance |-> 0, handler |-> 0]
    /\ rec = [state |-> "idle", results |-> <<>>, timers |-> 0]
    /\ queue = <<>>
    /\ utts = <<>>
    /\ calls = <<>>
    /\ ui = [isListening |-> FALSE, isProcessing |-> FALSE, isPlaying |-> FALSE,
             conversationMode |-> FALSE, conversations |-> <<>>,
             recordedText |-> FALSE, currentResponse |-> FALSE]
    /\ stopRequested = FALSE
    /\ errors = 0

NoSpeech == [input |-> <<>>, output |-> <<>>, done |-> FALSE]

Init == VoiceInit /\ speech = NoSpeech

(* A startListening call is still to come from each greeting in flight. *)
GreetingsInFlight ==
    Cardinality({u \in DOMAIN utts :
                    utts[u].caller = "greeting" /\ utts[u].promise = "pending"})

Requests == 2 * (Len(calls) + GreetingsInFlight) + Len(utts)

CallRoom ==
    /\ Len(calls) + GreetingsInFlight < MaxCalls
    /\ Requests + 2 <= MaxRequests

UttRoom ==
    /\ Len(utts) < MaxUtt
    /\ Requests < MaxRequests

----------------------------------------------------------------------------
(* The user's clicks in VoiceRecorder; each guard is the condition under   *)
(* which the control is rendered.                                          *)

(* 'Ask AI a Question': VoiceRecorder.startListening *)
ClickAsk ==
    /\ ~ui.conversationMode /\ ~ui.isListening /\ ~ui.isProcessing /\ ~ui.isPlaying
    /\ CallRoom
    /\ LET w0 == [World EXCEPT !.stopRequested = FALSE]
           w1 == SetUI(w0, "isListening", TRUE)
           w2 == startListening(w1, FALSE, "single")
       IN Commit(IF w2.threw THEN startListeningFailed(w2) ELSE w2)

(* 'Start Natural Conversation': VoiceRecorder.startConversationMode *)
ClickStartConversation ==
    /\ ~ui.conversationMode
    /\ CallRoom /\ UttRoom
    /\ LET w0 == [World EXCEPT !.stopRequested = FALSE]
           w1 == SetUI(w0, "conversationMode", TRUE)
           w2 == speakResponse(w1, "greeting", 0)
       IN Commit(IF w2.threw
                 THEN toastError(SetUI(Caught(w2), "conversationMode", FALSE))
                 ELSE w2)

(* 'End Conversation': VoiceRecorder.stopConversationMode *)
ClickEndConversation ==
    /\ ui.conversationMode
    /\ Commit(stopConversationMode([World EXCEPT !.stopRequested = TRUE]))

(* 'Stop Recording': VoiceRecorder.stopListening *)
ClickStopRecording ==
    /\ ui.isListening /\ ~ui.conversationMode
    /\ Commit(SetUI(stopListening(World), "isListening", FALSE))

(* 'Stop Speaking': VoiceService.forceStop *)
ClickStopSpeaking ==
    /\ ui.isPlaying /\ ~ui.isListening /\ ~ui.isProcessing
    /\ Commit(forceStop(World))

(* 'Replay Response' / 'Replay Question': replayResponse, playRecording *)
ClickReplay ==
    /\ ui.currentResponse \/ ui.recordedText \/ Len(ui.conversations) > 0
    /\ ~ui.isPlaying
    /\ UttRoom
    /\ LET w0 == [World EXCEPT !.stopRequested = FALSE]
           w1 == SetUI(w0, "isPlaying", TRUE)
           w2 == speakResponse(w1, "replay", 0)
       IN Commit(IF w2.threw
                 THEN toastError(SetUI(Caught(w2), "isPlaying", FALSE))
                 ELSE w2)

(* 'Clear All Data': VoiceRecorder.clearRecording *)
ClickClear ==
    /\ Len(ui.conversations) > 0 \/ ui.recordedText
    /\ LET w0 == [World EXCEPT !.stopRequested = TRUE]
           w1 == SetUI(w0, "recordedText", FALSE)
           w2 == SetUI(w1, "currentResponse", FALSE)
           w3 == SetUI(w2, "isPlaying", FALSE)
           w4 == SetUI(w3, "conversations", <<>>)
           w5 == IF ui.conversationMode THEN stopConversationMode(w4) ELSE w4
       IN Commit(stopSpeaking(w5))

(* speakResponse called by another component (ChatInterface, SmartSummary, *)
(* PerformanceChart): nobody in VoiceRecorder awaits it.                   *)
OtherSpeak ==
    /\ UttRoom
    /\ Commit(speakResponse([World EXCEPT !.stopRequested = FALSE], "other", 0))

----------------------------------------------------------------------------
(* The AI dispatcher answers or fails (GeminiService.generateResponse) *)

DispatchOk(c) ==
    /\ calls[c].dispatch = "pending"
    /\ UttRoom
    /\ Commit(processVoiceInputResponse([World EXCEPT !.calls[c].dispatch = "ok"], c))

DispatchFail(c) ==
    /\ calls[c].dispatch = "pending"
    /\ Commit(processVoiceInputFailed([World EXCEPT !.calls[c].dispatch = "failed"], c))

----------------------------------------------------------------------------
(* The platform recognizer's events *)

RecStart ==
    /\ rec.state = "starting"
    /\ Commit(onstart([World EXCEPT !.rec.state = "running"]))

(* A result event: the last result, if interim, is revised or finalized,   *)
(* otherwise a new result is appended; after stop() the recognizer may     *)
(* still return a final result from the audio captured so far.  Only the   *)
(* first transcript of a session has no leading space on a platform that   *)
(* separates results.                                                      *)
NextResults(results, t, final) ==
    LET k == IF Len(results) > 0 /\ ~results[Len(results)].isFinal
             THEN Len(results) ELSE Len(results) + 1
        r == [transcript |-> [t EXCEPT !.lead = env.spaced /\ k > 1], isFinal |-> final]
    IN IF k = Len(results) THEN [results EXCEPT ![k] = r] ELSE Append(results, r)

RecResult(t, final) ==
    /\ rec.state \in {"running", "stopping"}
    /\ rec.state = "stopping" => final
    /\ IF Len(rec.results) < MaxResults THEN TRUE
       ELSE ~rec.results[Len(rec.results)].isFinal
    /\ Commit(onresult([World EXCEPT !.rec.results = NextResults(@, t, final)]))

(* an error event (not-allowed, no-speech, network, ...); the end event    *)
(* follows it                                                              *)
RecError ==
    /\ rec.state \in {"starting", "running"}
    /\ Commit(onerror([World EXCEPT !.rec.state = "ending"]))

(* the end event: after stop(), after an error, or when the platform ends  *)
(* the session by itself                                                   *)
RecEnd ==
    /\ rec.state \in {"running", "stopping", "ending"}
    /\ (calls[svc.handler].continuous /\ svc.continuousListening) => rec.timers < MaxTimers
    /\ Commit(onend([World EXCEPT !.rec.state = "idle"]))

RestartTimer ==
    /\ rec.timers > 0
    /\ Commit(restartTimer(World))

----------------------------------------------------------------------------
(* The platform synthesizer's events *)

SynthStart(u) ==
    /\ Len(queue) > 0 /\ queue[1] = u
    /\ utts[u].st = "pending"
    /\ Commit(utteranceOnstart([World EXCEPT !.utts[u].st = "speaking"], u))

SynthEnd(u) ==
    /\ utts[u].st = "speaking"
    /\ Commit(utteranceOnend([World EXCEPT !.utts[u].st = "done",
                                           !.queue = Tail(@)], u))

(* a synthesis failure: not-allowed, synthesis-failed, audio-busy, ... *)
SynthFail(u) ==
    /\ Len(queue) > 0 /\ queue[1] = u
    /\ utts[u].st \in {"pending", "speaking"}
    /\ Commit(utteranceOnerror([World EXCEPT !.utts[u].st = "done",
                                             !.queue = Tail(@)], u, "failed"))

(* The error event of an utterance removed by cancel(): 'interrupted' if   *)
(* it had begun being spoken; if it had not, 'canceled', or 'interrupted'  *)
(* where the platform had already taken it from the queue.                 *)
SynthCancelled(u, error) ==
    /\ utts[u].st \in {"cancelledSpeaking", "cancelledPending"}
    /\ error \in {"interrupted", "canceled"}
    /\ utts[u].st = "cancelledSpeaking" => error = "interrupted"
    /\ Commit(utteranceOnerror([World EXCEPT !.utts[u].st = "done"], u, error))

----------------------------------------------------------------------------
DispatchStep == \E c \in DOMAIN calls : DispatchOk(c) \/ DispatchFail(c)

SynthStep ==
    \E u \in DOMAIN utts :
        \/ SynthStart(u)
        \/ SynthEnd(u)
        \/ SynthFail(u)
        \/ \E error \in {"interrupted", "canceled"} : SynthCancelled(u, error)

Next ==
    \/ ClickAsk
    \/ ClickStartConversation
    \/ ClickEndConversation
    \/ ClickStopRecording
    \/ ClickStopSpeaking
    \/ ClickReplay
    \/ ClickClear
    \/ OtherSpeak
    \/ \E c \in DOMAIN calls : DispatchOk(c)
    \/ \E c \in DOMAIN calls : DispatchFail(c)
    \/ RecStart
    \/ \E t \in Vocabulary, final \in BOOLEAN : RecResult(t, final)
    \/ RecError
    \/ RecEnd
    \/ RestartTimer
    \/ \E u \in DOMAIN utts : SynthStart(u)
    \/ \E u \in DOMAIN utts : SynthEnd(u)
    \/ \E u \in DOMAIN utts : SynthFail(u)
    \/ \E u \in DOMAIN utts, error \in {"interrupted", "canceled"} : SynthCancelled(u, error)

Spec == Init /\ [][Next]_vars

(* The browser delivers every queued event, timer and network reply; the   *)
(* user is free to stay silent and to click nothing.                       *)
FairSpec ==
    /\ Spec
    /\ WF_vars(DispatchStep)
    /\ WF_vars(SynthStep)
    /\ WF_vars(RecStart)
    /\ WF_vars(RestartTimer)

----------------------------------------------------------------------------
(* The text VoiceService.speakResponse hands to speak().  A text is a      *)
(* sequence of characters; what matters of a character is told by five     *)
(* representatives: "*" an asterisk, "E" one of the pictographic symbols   *)
(* of the regular expression, "n" a newline, "_" a space, "a" any other.   *)

Alphabet == {"*", "E", "n", "_", "a"}

Texts == UNION {[1..k -> Alphabet] : k \in 0..MaxTextLen}

(* .replace(/\*\*/g, ''): the matches are found left to right in the      *)
(* original string and do not overlap                                      *)
RECURSIVE RemoveBold(_)
RemoveBold(t) ==
    IF Len(t) < 2 THEN t
    ELSE IF t[1] = "*" /\ t[2] = "*" THEN RemoveBold(SubSeq(t, 3, Len(t)))
    ELSE <<t[1]>> \o RemoveBold(Tail(t))

(* .replace(/<symbol>|...|<symbol>/g, '') *)
RemoveSymbols(t) == SelectSeq(t, LAMBDA ch : ch # "E")

(* .replace(/\n\n/g, '. ') *)
RECURSIVE ReplaceDoubleNewlines(_)
ReplaceDoubleNewlines(t) ==
    IF Len(t) < 2 THEN t
    ELSE IF t[1] = "n" /\ t[2] = "n"
    THEN <<"a", "_">> \o ReplaceDoubleNewlines(SubSeq(t, 3, Len(t)))
    ELSE <<t[1]>> \o ReplaceDoubleNewlines(Tail(t))

(* .replace(/\n/g, ' ') *)
ReplaceNewlines(t) == [i \in DOMAIN t |-> IF t[i] = "n" THEN "_" ELSE t[i]]

IsSpace(ch) == ch \in {"_", "n"}

(* .trim() *)
RECURSIVE TrimStart(_)
TrimStart(t) ==
    IF Len(t) > 0 /\ IsSpace(t[1]) THEN TrimStart(Tail(t)) ELSE t

RECURSIVE TrimEnd(_)
TrimEnd(t) ==
    IF Len(t) > 0 /\ IsSpace(t[Len(t)]) THEN TrimEnd(SubSeq(t, 1, Len(t) - 1)) ELSE t

TrimText(t) == TrimEnd(TrimStart(t))

(* cleanedResponse of VoiceService.speakResponse *)
cleanedResponse(response) ==
    TrimText(ReplaceNewlines(ReplaceDoubleNewlines(RemoveSymbols(RemoveBold(response)))))

(* speakResponse(response) for any response text *)
SanitizeInit ==
    /\ VoiceInit
    /\ speech \in {[input |-> t, output |-> <<>>, done |-> FALSE] : t \in Texts}

Sanitize ==
    /\ ~speech.done
    /\ speech' = [speech EXCEPT !.output = cleanedResponse(speech.input), !.done = TRUE]
    /\ UNCHANGED <<env, svc, rec, queue, utts, calls, ui, stopRequested, errors>>

SanitizeSpec == SanitizeInit /\ [][Sanitize]_vars

----------------------------------------------------------------------------
(* Properties *)

(* The utterances the platform synthesizer holds, queued or playing *)
ActiveUtterances == {u \in DOMAIN utts : utts[u].st \in {"pending", "speaking"}}

(* C1: at every instant at most one utterance is active (queued or playing) *)
(* on the synthesizer, and it is the newest one speak() created: speak()    *)
(* cancels before it enqueues, whichever component calls it.                *)
C1_AtMostOneActiveUtterance ==
    /\ Len(queue) <= 1
    /\ ActiveUtterances \subseteq {Len(utts)}
    /\ \A i \in DOMAIN queue : queue[i] \in ActiveUtterances

(* C1 witness: a second speak() arrived while the first utterance was       *)
(* playing; the first is cancelled and only the second is queued.           *)
C1_Witness ==
    /\ Len(utts) >= 2
    /\ utts[1].st = "cancelledSpeaking"
    /\ queue = <<2>>

(* A single-shot session: conversation mode was never entered, and every  *)
(* utterance is the response of processVoiceInput.                         *)
SingleShotSession ==
    /\ ~ui.conversationMode
    /\ \A c \in DOMAIN calls : calls[c].caller = "single"
    /\ \A u \in DOMAIN utts : utts[u].caller = "processVoiceInput"

(* C2: in a single-shot session VoiceService.isListening() and             *)
(* VoiceService.isSpeaking() are never both true.                          *)
C2_NeverListeningAndSpeaking ==
    SingleShotSession => ~(svc.isListening /\ svc.isSpeaking)

(* The installed handlers are those of continuous call c, and the session  *)
(* holds a final result that contains no stop keyword.                     *)
ContinuousFinalReceived(c) ==
    /\ c \in DOMAIN calls
    /\ calls[c].continuous
    /\ svc.handler = c
    /\ \E i \in DOMAIN rec.results :
          rec.results[i].isFinal /\ ~rec.results[i].transcript.kw

(* the transcript of call c went to the AI dispatcher *)
Forwarded(c) == c \in DOMAIN calls /\ calls[c].dispatch # "none"

(* C3: in conversation mode every finalized transcript that is not a stop  *)
(* phrase is eventually forwarded to the AI dispatcher (unless the user    *)
(* ends the conversation first).                                           *)
C3_ContinuousFinalForwarded ==
    \A c \in 1..MaxCalls :
        (ui.conversationMode /\ ContinuousFinalReceived(c))
            ~> (Forwarded(c) \/ ~ui.conversationMode)

(* playback of the response to call c began / is still queued *)
PlaybackInitiated(c) ==
    \E u \in DOMAIN utts :
        utts[u].caller = "processVoiceInput" /\ utts[u].resp = c /\ utts[u].started

PlaybackQueued(c) ==
    \E u \in DOMAIN utts :
        utts[u].caller = "processVoiceInput" /\ utts[u].resp = c /\ utts[u].st = "pending"

(* C4: an exchange is in the conversation history only if playback of its  *)
(* response was initiated (or is still queued to begin): a response whose  *)
(* speakResponse() failed before playing is not in the history.            *)
C4_HistoryOnlyIfPlaybackInitiated ==
    \A i \in DOMAIN ui.conversations :
        PlaybackInitiated(ui.conversations[i]) \/ PlaybackQueued(ui.conversations[i])

(* C5: once the user has invoked stopConversationMode() or clearRecording() *)
(* and until the user asks for something again, the session is Idle:       *)
(* not listening, not speaking, conversation flags false, no restart.      *)
C5_StopLeadsToIdle ==
    stopRequested =>
        /\ ~svc.isListening
        /\ ~svc.isSpeaking
        /\ ~ui.conversationMode
        /\ ~svc.continuousListening
        /\ rec.state # "starting"

(* C6: isSpeaking() is true only while currentUtterance is non-null and    *)
(* that utterance is queued or playing.                                    *)
C6_SpeakingOnlyWithActiveUtterance ==
    svc.isSpeaking =>
        /\ svc.currentUtterance # 0
        /\ utts[svc.currentUtterance].st \in {"pending", "speaking"}

(* the four stop/cancel entry points of VoiceService *)
StopOperation(op, w) ==
    CASE op = "stopListening" -> stopListening(w)
      [] op = "stopContinuousListening" -> stopContinuousListening(w)
      [] op = "stopSpeaking" -> stopSpeaking(w)
      [] op = "forceStop" -> forceStop(w)

StopOperations == {"stopListening", "stopContinuousListening", "stopSpeaking", "forceStop"}

IdleBaseline(w) ==
    /\ ~w.svc.isListening /\ ~w.svc.isSpeaking /\ ~w.svc.continuousListening
    /\ w.svc.currentUtterance = 0 /\ w.queue = <<>>

(* C7: in every state, each stop/cancel operation returns without throwing, *)
(* a second consecutive call changes nothing, and a call made when nothing  *)
(* is active changes nothing at all.                                        *)
C7_StopIdempotentNeverThrows ==
    \A op \in StopOperations :
        LET w1 == StopOperation(op, World)
            w2 == StopOperation(op, w1)
        IN /\ ~w1.threw
           /\ w2 = w1
           /\ IdleBaseline(World) => w1 = World

(* a recognition result whose transcript is exactly a stop phrase arrives *)
StopPhraseArrives ==
    /\ rec.results' # rec.results
    /\ Len(rec.results') > 0
    /\ Trim(rec.results'[Len(rec.results')].transcript) = StopLiteral

Playing == \E u \in DOMAIN utts : utts[u].st = "speaking"

(* C8: in conversation mode, a stop phrase recognised while a response is  *)
(* playing cancels playback in that same event, capture stays active and   *)
(* the stop utterance is not forwarded to the dispatcher.                  *)
C8_StopPhraseCancelsPlayback ==
    [][ ( /\ ui.conversationMode
          /\ svc.handler # 0
          /\ rec.state = "running"
          /\ Playing
          /\ StopPhraseArrives )
        => ( /\ calls[svc.handler].continuous
             /\ queue' = <<>>
             /\ rec'.state = "running"
             /\ svc'.isListening
             /\ calls'[svc.handler].dispatch = "none" ) ]_vars

(* C9: single-shot scenario 1: once the only response has been played to   *)
(* its natural end, the session is Idle: the UI flags are false, the       *)
(* service is neither listening nor speaking, and no capture is running.   *)
C9_SingleShotEndsIdle ==
    ( /\ SingleShotSession
      /\ Len(calls) = 1 /\ Len(utts) = 1
      /\ calls[1].dispatch = "ok"
      /\ utts[1].outcome = "end" )
    => ( /\ ~ui.isListening /\ ~ui.isProcessing /\ ~ui.isPlaying
         /\ ~svc.isListening /\ ~svc.isSpeaking
         /\ rec.state \notin {"starting", "running"} )

(* the utterance was removed by a later speak(), and its handler has run *)
Preempted(u) ==
    utts[u].preemptedBy # 0 /\ utts[u].outcome \in {"interrupted", "canceled"}

(* what the awaiting caller observes of a natural end: the promise is       *)
(* resolved, with no value                                                  *)
NaturalEndSignal == "resolved"

(* C10: a pre-empted utterance's completion signal is told apart from a    *)
(* natural end, by a flag on the signal and not by an exception.           *)
C10_PreemptedDistinguishable ==
    \A u \in DOMAIN utts :
        Preempted(u) =>
            /\ utts[u].promise # NaturalEndSignal
            /\ utts[u].promise # "rejected"

(* C11: the promise of speak() is resolved, never rejected, when its       *)
(* utterance was removed by cancel() (a later speak(), forceStop() or      *)
(* stopSpeaking()), whether it was playing or still queued; it is rejected *)
(* only when synthesis itself failed.                                      *)
C11_CancelledSpeakResolves ==
    \A u \in DOMAIN utts :
        /\ utts[u].outcome \in {"interrupted", "canceled"} => utts[u].promise = "resolved"
        /\ utts[u].promise = "rejected" => utts[u].outcome = "failed"

(* the AI dispatcher's call for c fails in this step *)
DispatchFails(c) ==
    /\ c \in DOMAIN calls
    /\ calls[c].dispatch = "pending"
    /\ calls'[c].dispatch = "failed"

(* C12: when the dispatcher's call fails, exactly one error message is     *)
(* shown and the session is Idle: not processing, no playback started, no  *)
(* capture running, no exchange added to the history, no new dispatch.     *)
C12_DispatchFailureToIdle ==
    [][ \A c \in 1..MaxCalls :
          DispatchFails(c) =>
            /\ errors' = 1
            /\ ~ui'.isProcessing
            /\ utts' = utts
            /\ ui'.conversations = ui.conversations
            /\ \A d \in DOMAIN calls' : calls'[d].dispatch # "pending"
            /\ ~svc'.isListening
            /\ rec'.state \notin {"starting", "running"} ]_vars

(* processVoiceInput ends in this step by reporting an error *)
ProcessingFails ==
    ui.isProcessing /\ ~ui'.isProcessing /\ errors' > 0

(* C13: when processVoiceInput ends with a fatal error (the dispatcher or  *)
(* speech synthesis failed, or synthesis is unsupported), exactly one      *)
(* error message is shown and VoiceRecorder is Idle: isListening,          *)
(* isProcessing and isPlaying are all false.                               *)
C13_FatalErrorToIdle ==
    [][ ProcessingFails =>
          /\ errors' = 1
          /\ ~ui'.isListening
          /\ ~ui'.isProcessing
          /\ ~ui'.isPlaying ]_vars

(* recognition.start() is invoked in this step: by the executor of a new   *)
(* startListening() call, or by the restart timer of a continuous session  *)
StartInvoked ==
    \/ Len(calls') = Len(calls) + 1
    \/ rec'.timers < rec.timers /\ svc.continuousListening

CaptureActive == rec.state \in {"starting", "running"}

(* the two policies for a startListening() call made while capture is      *)
(* active: the new call is rejected and nothing else changes, or capture   *)
(* is restarted for the new call                                           *)
RejectPolicy ==
    /\ calls'[Len(calls')].promise = "rejected"
    /\ svc'.handler = svc.handler
    /\ svc'.continuousListening = svc.continuousListening
    /\ rec' = rec

RestartPolicy ==
    /\ calls'[Len(calls')].promise = "pending"
    /\ svc'.handler = Len(calls')
    /\ rec'.state = "starting"

(* C14: a startListening() call made while capture is active is either     *)
(* rejected, leaving the running capture and its handlers untouched, or    *)
(* restarts capture cleanly for the new call.                              *)
C14_StartWhileActivePolicy ==
    [][ (CaptureActive /\ Len(calls') = Len(calls) + 1)
            => (RejectPolicy \/ RestartPolicy) ]_vars

(* C15: recognition.start() is never invoked on a recognition that is      *)
(* already started or starting.                                            *)
C15_NoSecondStart ==
    [][ StartInvoked => ~CaptureActive ]_vars

(* C16: after stopListening() has stopped a single-shot capture, no later  *)
(* event of that capture has its transcript processed: it is neither set   *)
(* as the recorded question nor dispatched to the AI.                      *)
C16_StopSuppressesTranscript ==
    [][ \A c \in 1..MaxCalls :
          ( /\ c \in DOMAIN calls
            /\ svc.handler = c
            /\ ~calls[c].continuous
            /\ rec.state = "stopping" )
          => ( /\ ~(calls[c].dispatch = "none" /\ calls'[c].dispatch # "none")
               /\ ~(ui'.recordedText /\ ~ui.recordedText) ) ]_vars

(* the first result of a single-shot capture arrives final, and it is the  *)
(* long utterance that merely contains a stop word                         *)
LongUtteranceFinal(c) ==
    /\ env.synthSupported
    /\ c \in DOMAIN calls
    /\ svc.handler = c
    /\ ~calls[c].continuous
    /\ calls[c].promise = "pending"
    /\ calls[c].finalTranscript = Empty
    /\ rec.results' # rec.results
    /\ rec.results' = << [transcript |-> LongWithStop, isFinal |-> TRUE] >>

(* C17: an utterance longer than the threshold that merely contains a stop *)
(* word is not a stop command: playback is not cancelled and the utterance *)
(* is forwarded to the AI dispatcher as a question.                        *)
C17_LongUtteranceIsAQuestion ==
    [][ \A c \in 1..MaxCalls :
          LongUtteranceFinal(c) =>
            /\ queue' = queue
            /\ calls'[c].dispatch = "pending" ]_vars

(* onresult's interruption check fires in this step: a result event        *)
(* arrives and the accumulated text passes checkForInterruption            *)
InterruptionDetected ==
    /\ svc.handler # 0
    /\ rec.results' # rec.results
    /\ Len(rec.results') > 0
    /\ LET acc == Accumulate(rec.results', Len(rec.results'),
                             [final |-> calls[svc.handler].finalTranscript,
                              interim |-> Empty])
       IN checkForInterruption(Trim(Concat(acc.final, acc.interim)))

C19_SingleShotInterruptionToIdle ==
    [][ ( /\ InterruptionDetected
          /\ env.synthSupported
          /\ ~calls[svc.handler].continuous
          /\ calls[svc.handler].promise = "pending" )
        => ( /\ queue' = <<>>
             /\ ~ui'.isListening
             /\ ~svc'.isListening
             /\ ~CaptureActive'
             /\ calls'[svc.handler].dispatch = "none"
             /\ ui'.conversations = ui.conversations ) ]_vars

(* continuous capture has begun for the conversation *)
ContinuousCaptureBegun ==
    /\ ui.conversationMode
    /\ svc.handler # 0
    /\ calls[svc.handler].continuous
    /\ rec.state = "running"

(* C20: once the greeting has finished and continuous capture has begun,   *)
(* VoiceRecorder eventually reports Listening (onListeningChange(true)),   *)
(* unless the conversation is ended first.                                 *)
C20_ConversationReachesListening ==
    ContinuousCaptureBegun ~> (ui.isListening \/ ~ui.conversationMode)

(* the conversation is active: continuous capture was begun for it and has *)
(* not failed                                                              *)
ConversationActive ==
    /\ ui.conversationMode
    /\ svc.handler # 0
    /\ calls[svc.handler].continuous
    /\ calls[svc.handler].promise = "pending"

(* the response of a single-shot request ends naturally in this step *)
SingleShotPlaybackEnds(u) ==
    /\ u \in DOMAIN utts
    /\ ~ui.conversationMode
    /\ utts[u].caller = "processVoiceInput"
    /\ utts[u].outcome = "none"
    /\ utts'[u].outcome = "end"

C22_SanitizedText ==
    speech.done =>
        /\ \A i \in DOMAIN speech.output : speech.output[i] \notin {"n", "E"}
        /\ \A i \in 1..(Len(speech.output) - 1) :
              ~(speech.output[i] = "*" /\ speech.output[i + 1] = "*")

(* C23: in a continuous session a result that is only a stop keyword       *)
(* triggers the interruption however many words were finalized earlier in  *)
(* the session.                                                            *)
C23_StopDetectionSurvivesAccumulation ==
    [][ ( /\ env.synthSupported
          /\ ConversationActive
          /\ rec.state = "running"
          /\ StopPhraseArrives )
        => InterruptionDetected ]_vars

(* C24: after clearRecording() or stopConversationMode(), and until the    *)
(* user asks for something again, a late answer of the dispatcher appends  *)
(* no exchange to the history and starts no playback.                      *)
C24_LateResponseDiscarded ==
    [][ (env.synthSupported /\ stopRequested /\ stopRequested') =>
          /\ Len(ui'.conversations) <= Len(ui.conversations)
          /\ Len(utts') = Len(utts) ]_vars

(* the user ended the conversation while its greeting was playing *)
GreetingStoppedWhilePlaying ==
    /\ env.recSupported
    /\ stopRequested
    /\ \E u \in DOMAIN utts :
          /\ utts[u].caller = "greeting"
          /\ utts[u].started
          /\ utts[u].preemptedBy = 0
          /\ utts[u].st = "cancelledSpeaking"

(* C25: when the conversation is ended while the greeting is playing, and  *)
(* until the user starts a capture again, continuousListening stays false  *)
(* and recognition.start() is not called.                                  *)
C25_NoCaptureAfterStoppedGreeting ==
    [][ (GreetingStoppedWhilePlaying /\ stopRequested') =>
          /\ ~svc'.continuousListening
          /\ ~StartInvoked
          /\ rec'.state # "starting" ]_vars

(* C26: whenever VoiceRecorder shows the conversation as off (the user did *)
(* not just stop it: it failed to start or a recognition error ended it),  *)
(* VoiceService.continuousListening is false and no restart is scheduled;  *)
(* stated where recognition exists and only the greeting was spoken.       *)
C26_ConversationOffMeansNoRestart ==
    ( /\ ~ui.conversationMode /\ ~stopRequested
      /\ env.recSupported
      /\ \A u \in DOMAIN utts : utts[u].caller = "greeting" )
    =>  /\ ~svc.continuousListening
        /\ rec.timers = 0

(* the recognition session ends in this step *)
RecognitionEnds ==
    rec.state \in {"running", "stopping", "ending"} /\ rec'.state = "idle"

(* C27: once the recognition has ended, the promise of every single-shot   *)
(* startListening() call made for it is settled, also when a later         *)
(* startListening() call replaced the handlers: no caller waits forever.   *)
C27_SingleShotPromiseSettles ==
    [][ RecognitionEnds =>
          \A c \in DOMAIN calls :
              ~calls[c].continuous => calls'[c].promise # "pending" ]_vars

(* C28: in a single-shot session whose only capture request is pending,    *)
(* once the user has pressed Stop (the UI is not Listening) the            *)
(* recognition is not running and isListening() is false.                  *)
C28_StopBeforeStartEventStops ==
    ( /\ SingleShotSession
      /\ Len(calls) = 1
      /\ calls[1].promise = "pending"
      /\ ~ui.isListening )
    => ( /\ ~svc.isListening
         /\ rec.state # "running" )

(* C29: while an utterance is playing, isSpeaking() is true and            *)
(* currentUtterance is that utterance: the late callbacks of the utterance *)
(* it pre-empted do not touch them.                                        *)
C29_SuccessorStateUntouched ==
    \A u \in DOMAIN utts :
        (utts[u].st = "speaking" /\ \E a \in DOMAIN utts : utts[a].preemptedBy = u)
            => (svc.isSpeaking /\ svc.currentUtterance = u)

(* C30: in a single-shot session at most one of isListening, isProcessing  *)
(* and isPlaying is true.                                                  *)
C30_FlagsMutuallyExclusive ==
    SingleShotSession =>
        /\ ~(ui.isListening /\ ui.isProcessing)
        /\ ~(ui.isListening /\ ui.isPlaying)
        /\ ~(ui.isProcessing /\ ui.isPlaying)

====
